---- MODULE Spec2Model ----
(***************************************************************************)
(* A state-machine model of download_gitlab_artifacts.py: the driver       *)
(* (main), the per-job worker (process_job) run by a thread pool, the      *)
(* paginated job lookup (get_job_id), the artifact download, the archive   *)
(* expansion, the JSON/XML renderers and the report packager (zip_pdfs).   *)
(* The filesystem and the GitLab server are part of the state.             *)
(***************************************************************************)
EXTENDS Naturals, Integers, Sequences, FiniteSets, TLC

\* ------------------------------------------------------------- bounds
MaxJobs == 2        \* most job names in the config file, all configurations together
MaxConfigs == 2     \* longest list of configurations in the config file
MaxPageSize == 2    \* largest number of jobs the server puts on one page
MaxRuns == 2        \* how many times the driver is run on the same output dir

\* ------------------------------------------------------------- inputs
\* (project, pipeline) pairs that a configuration may name; one output
\* directory project_<P>_pipeline_<PL> per pair.
Pipelines == {1, 2}

\* Job names a configuration may ask for.
JobNames == {"build", "test"}

Job(i, n) == [id |-> i, name |-> n]

\* The jobs of each pipeline, in the order the server lists them.  Job ids
\* are unique on the server.  Pipeline 1 has both names; pipeline 2 has no
\* "build" and a retried "test" (the same name twice).
ServerJobs(pl) ==
  IF pl = 1 THEN << Job(1, "build"), Job(2, "lint"), Job(3, "test") >>
            ELSE << Job(4, "test"), Job(5, "test") >>

JobIds == {1, 2, 3, 4, 5}

\* File names are (base, extension) pairs.
File(b, e) == [base |-> b, ext |-> e]

\* Files whose content does not parse (a malformed JSON or XML document).
Malformed == { File("b", "json"), File("b", "xml") }

\* The content of a file that holds an archive: a zip of some files, bytes
\* that are no zip archive ("corrupt"), a file still being written
\* ("partial"); Absent stands for no file at the path.
Payload(k, fs) == [kind |-> k, files |-> fs]
Absent == Payload("absent", {})
Partial == Payload("partial", {})

\* The body the server sends for GET .../jobs/<id>/artifacts.
Artifact(id) ==
  IF id = 1 THEN Payload("zip", { File("a", "json"), File("a", "xml"), File("b", "xml") })
  ELSE IF id = 3 THEN Payload("zip", { File("a", "json"), File("b", "json") })
  ELSE IF id = 4 THEN Payload("corrupt", {})
  ELSE Payload("zip", { File("a", "json") })

VARIABLES
  env,        \* the process environment and the config file, as main sees them
  configs,    \* the parsed config file: a sequence of configurations
  pageSize,   \* jobs per page of the server's listing
  mainpc,     \* position of main
  ci,         \* index of the configuration main is at
  run,        \* which run of the driver this is
  exitCode,   \* the process's exit status (-1 while running)
  jobs,       \* the futures of the current configuration: one record per job
  archives,   \* job id -> content of job_<id>_artifacts.zip in the cwd
  outDirs,    \* output directories that exist
  jobDirs,    \* <<pipeline, job id>> of the job_<id> directories that exist
  files,      \* the files in the job directories
  bundles,    \* pipeline -> content of <prefix>reports.zip in its output dir
  packaged,   \* configuration index -> calls of zip_pdfs in this run
  returned,   \* configuration index -> what its futures' result() gave
  hist        \* what main has done so far: requests, deletions, submissions

vars == << env, configs, pageSize, mainpc, ci, run, exitCode, jobs,
           archives, outDirs, jobDirs, files, bundles, packaged, returned,
           hist >>

\* ------------------------------------------------------------- server
Min(a, b) == IF a < b THEN a ELSE b

\* Number of pages of a pipeline's job listing (an empty listing has one page).
NumPages(pl) ==
  LET n == Len(ServerJobs(pl))
  IN IF n = 0 THEN 1 ELSE (n + pageSize - 1) \div pageSize

\* The body of GET .../pipelines/<pl>/jobs?per_page=100&page=<p>.
PageJobs(pl, p) ==
  LET n == Len(ServerJobs(pl))
  IN SubSeq(ServerJobs(pl), (p - 1) * pageSize + 1, Min(p * pageSize, n))

\* Decimal digits of a positive number, most significant first.
RECURSIVE Digits(_)
Digits(n) == IF n < 10 THEN << n >> ELSE Append(Digits(n \div 10), n % 10)

\* The X-Next-Page response header: the next page's number in decimal, or
\* the empty string on the last page.
NextPageHeader(pl, p) == IF p < NumPages(pl) THEN Digits(p + 1) ELSE << >>

\* int(next_page)
RECURSIVE ParseInt(_)
ParseInt(s) ==
  IF Len(s) = 0 THEN 0
  ELSE 10 * ParseInt(SubSeq(s, 1, Len(s) - 1)) + s[Len(s)]

\* A lookup that does not compare the name: the page's first job.
FirstOnPage(page, name) == IF Len(page) = 0 THEN 0 ELSE Head(page).id

\* for job in jobs: if job['name'] == job_name: return job['id']
\* The id of the first job of the page with that name, 0 when there is none.
RECURSIVE FirstMatch(_, _)
FirstMatch(page, name) ==
  IF Len(page) = 0 THEN 0
  ELSE IF Head(page).name = name THEN Head(page).id
  ELSE FirstMatch(Tail(page), name)

\* ------------------------------------------------------------- paths
\* os.path.splitext(path)[0] + '.pdf'
PdfPath(f) == File(f.base, "pdf")

\* filename.endswith('.json') / filename.endswith('.xml')
IsJson(f) == f.ext = "json"
IsXml(f) == f.ext = "xml"

\* file.lower().endswith('.pdf')
IsPdf(f) == f.ext = "pdf"

\* json.load / ET.parse succeed on the file's content
Parses(f) == f \notin Malformed

\* A file of a job directory: output/<pl>/job_<id>/<name>.  src is the
\* archive entry it was extracted or rendered from; by, cfg and rn name the
\* job, configuration and run that wrote it.
Entry(pl, id, name, src, j) ==
  [pl |-> pl, id |-> id, name |-> name, src |-> src,
   by |-> j, cfg |-> ci, rn |-> run]

SamePath(a, b) == a.pl = b.pl /\ a.id = b.id /\ a.name = b.name

\* Writing entries: each replaces whatever was at its path.
WriteAll(fs, new) ==
  { f \in fs : \A g \in new : ~SamePath(f, g) } \cup new

\* os.listdir(extract_dir)
ListDir(pl, id) == { f.name : f \in { g \in files : g.pl = pl /\ g.id = id } }

\* ------------------------------------------------------------- futures
\* The future of one submitted process_job call.
NewJob(pl, name) ==
  [pl |-> pl, name |-> name, pc |-> "resolve", page |-> 1, seen |-> << >>,
   job_id |-> 0,
   todo |-> {}, result |-> "pending", err |-> "none", at |-> "none"]

Running(j) == jobs[j].pc # "done"

\* A driver that waits for its first future only.
FirstDone == \A j \in DOMAIN jobs : j = 1 => ~Running(j)

\* for future in futures: future.result(), and the with block's
\* shutdown(wait=True): every submitted call has returned.
AllDone == \A j \in DOMAIN jobs : ~Running(j)

\* A worker without the except clause: the exception leaves process_job.
OnExceptionPropagates(job, e) ==
  [job EXCEPT !.pc = "done", !.result = "raised", !.err = e, !.at = job.pc]

\* except Exception as e: print(...); return False
OnException(job, e) ==
  [job EXCEPT !.pc = "done", !.result = "False", !.err = e, !.at = job.pc]

\* return True
OnReturn(job) == [job EXCEPT !.pc = "done", !.result = "True"]

Raise(j, e) == jobs' = [jobs EXCEPT ![j] = OnException(jobs[j], e)]

Note(what) == hist' = [hist EXCEPT ![what] = TRUE]

\* ------------------------------------------------------------- process_job
\* A lookup that reads the first page only, whatever X-Next-Page says.
get_job_id_turn_no_cursor(job, ok) ==
  LET asked == [job EXCEPT !.seen = Append(@, job.page)]
      found == FirstMatch(PageJobs(job.pl, job.page), job.name)
  IN IF ~ok THEN OnException(asked, "HTTPError")
     ELSE IF found # 0
       THEN [asked EXCEPT !.job_id = found, !.pc = "download"]
     ELSE OnException(asked, "ValueError")

\* get_job_id, one turn of its loop: request the page, raise on an HTTP
\* error, return the first job with the name, else follow X-Next-Page or
\* raise ValueError when the header is empty.  The job after the turn.
get_job_id_turn(job, ok) ==
  LET asked == [job EXCEPT !.seen = Append(@, job.page)]
      found == FirstMatch(PageJobs(job.pl, job.page), job.name)
      next_page == NextPageHeader(job.pl, job.page)
  IN IF ~ok THEN OnException(asked, "HTTPError")
     ELSE IF found # 0
       THEN [asked EXCEPT !.job_id = found, !.pc = "download"]
     ELSE IF Len(next_page) = 0
       THEN OnException(asked, "ValueError")
     ELSE [asked EXCEPT !.page = ParseInt(next_page)]

get_job_id(j) ==
  /\ jobs[j].pc = "resolve"
  /\ Note("listed")
  /\ \E ok \in BOOLEAN : jobs' = [jobs EXCEPT ![j] = get_job_id_turn(jobs[j], ok)]
  /\ UNCHANGED << env, configs, pageSize, mainpc, ci, run, exitCode,
                  archives, outDirs, jobDirs, files, bundles, packaged, returned >>

\* download_artifact up to open(output_filename, 'wb'): the request, then
\* raise_for_status, then the archive file is created or truncated.
download_artifact_open(j) ==
  LET id == jobs[j].job_id IN
  /\ jobs[j].pc = "download"
  /\ Note("downloaded")
  /\ \E ok \in BOOLEAN :
       IF ~ok
         THEN /\ Raise(j, "HTTPError")
              /\ UNCHANGED archives
         ELSE /\ jobs' = [jobs EXCEPT ![j].pc = "writing"]
              /\ archives' = [archives EXCEPT ![id] = Partial]
  /\ UNCHANGED << env, configs, pageSize, mainpc, ci, run, exitCode,
                  outDirs, jobDirs, files, bundles, packaged, returned >>

\* Another job is between open(..., 'wb') and the end of its writes on the
\* same archive path.
OtherWriter(j) ==
  \E k \in DOMAIN jobs :
    k # j /\ jobs[k].pc = "writing" /\ jobs[k].job_id = jobs[j].job_id

\* download_artifact, the rest: the chunks are written and the file closed.
\* A path unlinked meanwhile stays absent; with a second writer on the same
\* path the bytes on disk are whatever the two writers left (a data race).
download_artifact_write(j) ==
  LET id == jobs[j].job_id IN
  /\ jobs[j].pc = "writing"
  /\ jobs' = [jobs EXCEPT ![j].pc = "unzip"]
  /\ \E raced \in BOOLEAN :
       /\ raced => OtherWriter(j)
       /\ archives' = [archives EXCEPT ![id] =
            IF archives[id] = Absent THEN Absent
            ELSE IF raced THEN Partial
            ELSE Artifact(id)]
  /\ UNCHANGED << env, configs, pageSize, mainpc, ci, run, exitCode,
                  outDirs, jobDirs, files, bundles, packaged, returned, hist >>

\* Another job is in unzip_to_dir for the same directory.
OtherUnzipper(j) ==
  \E k \in DOMAIN jobs :
    k # j /\ jobs[k].pc = "unzip" /\ jobs[k].job_id = jobs[j].job_id

\* unzip_to_dir up to extractall: makedirs when the directory is missing
\* (two jobs that both find it missing both call makedirs, and the second
\* call raises FileExistsError), ZipFile(zip_path) (which raises on a
\* missing file and on a file that is no zip archive), extractall.
unzip_to_dir_extract(j) ==
  LET id == jobs[j].job_id
      pl == jobs[j].pl
      zip == archives[id]
  IN
  /\ jobs[j].pc = "unzip"
  /\ outDirs' = outDirs \cup {pl}
  /\ jobDirs' = jobDirs \cup {<< pl, id >>}
  /\ \E clash \in BOOLEAN :
       /\ clash => (<< pl, id >> \notin jobDirs /\ OtherUnzipper(j))
       /\ IF clash
            THEN Raise(j, "FileExistsError") /\ UNCHANGED files
          ELSE IF zip = Absent
            THEN Raise(j, "FileNotFoundError") /\ UNCHANGED files
          ELSE IF zip.kind # "zip"
            THEN Raise(j, "BadZipFile") /\ UNCHANGED files
          ELSE /\ files' = WriteAll(files, { Entry(pl, id, f, f, j) : f \in zip.files })
               /\ jobs' = [jobs EXCEPT ![j].pc = "remove"]
  /\ UNCHANGED << env, configs, pageSize, mainpc, ci, run, exitCode,
                  archives, bundles, packaged, returned, hist >>

\* unzip_to_dir: os.remove(zip_path)
unzip_to_dir_remove(j) ==
  LET id == jobs[j].job_id IN
  /\ jobs[j].pc = "remove"
  /\ IF archives[id] = Absent
       THEN Raise(j, "FileNotFoundError") /\ UNCHANGED archives
       ELSE /\ archives' = [archives EXCEPT ![id] = Absent]
            /\ jobs' = [jobs EXCEPT ![j].pc = "listdir"]
  /\ UNCHANGED << env, configs, pageSize, mainpc, ci, run, exitCode,
                  outDirs, jobDirs, files, bundles, packaged, returned, hist >>

\* for filename in os.listdir(extract_dir): the names are read once; the
\* loop body acts on the .json and .xml ones, in the directory's order.
process_job_listdir(j) ==
  /\ jobs[j].pc = "listdir"
  /\ jobs' = [jobs EXCEPT ![j].pc = "render",
                          ![j].todo = { f \in ListDir(jobs[j].pl, jobs[j].job_id) :
                                          IsJson(f) \/ IsXml(f) }]
  /\ UNCHANGED << env, configs, pageSize, mainpc, ci, run, exitCode,
                  archives, outDirs, jobDirs, files, bundles, packaged, returned, hist >>

\* json_to_pdf: json.load raises on a malformed file, before any document is
\* opened; otherwise the document is written at pdf_path.
\* xml_to_pdf: a parse error is caught and printed, no document is written
\* and nothing is raised.
\* The result is <<raised, documents written>>.
json_to_pdf(pl, id, f, j) ==
  IF Parses(f) THEN << FALSE, { Entry(pl, id, PdfPath(f), f, j) } >>
  ELSE << TRUE, {} >>

xml_to_pdf(pl, id, f, j) ==
  IF Parses(f) THEN << FALSE, { Entry(pl, id, PdfPath(f), f, j) } >>
  ELSE << FALSE, {} >>

\* One turn of the loop over the directory's names.
process_job_render(j) ==
  /\ jobs[j].pc = "render"
  /\ \E f \in jobs[j].todo :
       LET job == [jobs[j] EXCEPT !.todo = @ \ {f}]
           out == IF IsJson(f) THEN json_to_pdf(job.pl, job.job_id, f, j)
                  ELSE xml_to_pdf(job.pl, job.job_id, f, j)
       IN /\ files' = WriteAll(files, out[2])
          /\ jobs' = [jobs EXCEPT ![j] =
               IF out[1] THEN OnException(job, "JSONDecodeError") ELSE job]
  /\ UNCHANGED << env, configs, pageSize, mainpc, ci, run, exitCode,
                  archives, outDirs, jobDirs, bundles, packaged, returned, hist >>

\* The loop is over: return True.
process_job_return(j) ==
  /\ jobs[j].pc = "render"
  /\ jobs[j].todo = {}
  /\ jobs' = [jobs EXCEPT ![j] = OnReturn(jobs[j])]
  /\ UNCHANGED << env, configs, pageSize, mainpc, ci, run, exitCode,
                  archives, outDirs, jobDirs, files, bundles, packaged, returned, hist >>

\* ------------------------------------------------------------- main
\* if not token / if not base_url / if not os.path.exists(args.config) /
\* json.load(f) raising
TokenMissing == ~env.token
BaseUrlMissing == ~env.base_url
ConfigPathMissing == ~env.config_exists

\* A handler that prints the JSON error and goes on.
ConfigErrorIgnored == FALSE

ConfigUnreadable == ~env.config_json

Exit(code) == mainpc' = "exit" /\ exitCode' = code

MainUnchanged ==
  UNCHANGED << env, configs, pageSize, ci, run, jobs, archives,
               outDirs, jobDirs, files, bundles, packaged, returned, hist >>

main_token ==
  /\ mainpc = "token"
  /\ IF TokenMissing THEN Exit(1)
     ELSE mainpc' = "base_url" /\ UNCHANGED exitCode
  /\ MainUnchanged

main_base_url ==
  /\ mainpc = "base_url"
  /\ IF BaseUrlMissing THEN Exit(1)
     ELSE mainpc' = "config_path" /\ UNCHANGED exitCode
  /\ MainUnchanged

main_config_path ==
  /\ mainpc = "config_path"
  /\ IF ConfigPathMissing THEN Exit(1)
     ELSE mainpc' = "load" /\ UNCHANGED exitCode
  /\ MainUnchanged

main_load_config ==
  /\ mainpc = "load"
  /\ IF ConfigUnreadable THEN Exit(1)
     ELSE mainpc' = "loop" /\ UNCHANGED exitCode
  /\ MainUnchanged

\* A clean_output_dir that removes nothing.
clean_output_dir_keeps(pl, fsys) == fsys

\* clean_output_dir: shutil.rmtree(output_dir) when it exists.  What is left
\* of the filesystem after it.
clean_output_dir(pl, fsys) ==
  IF pl \notin fsys.outDirs THEN fsys
  ELSE [outDirs |-> fsys.outDirs \ {pl},
        jobDirs |-> { d \in fsys.jobDirs : d[1] # pl },
        files   |-> { f \in fsys.files : f.pl # pl },
        bundles |-> [fsys.bundles EXCEPT ![pl] = Absent]]

\* for config in configs: ... clean_output_dir(output_dir)
main_clean ==
  /\ mainpc = "loop"
  /\ ci <= Len(configs)
  /\ LET after == clean_output_dir(configs[ci].pipeline,
                    [outDirs |-> outDirs, jobDirs |-> jobDirs,
                     files |-> files, bundles |-> bundles])
     IN /\ outDirs' = after.outDirs
        /\ jobDirs' = after.jobDirs
        /\ files' = after.files
        /\ bundles' = after.bundles
  /\ hist' = [hist EXCEPT !["clean"] = @ \/ configs[ci].pipeline \in outDirs]
  /\ mainpc' = "submit"
  /\ UNCHANGED << env, configs, pageSize, ci, run, exitCode, jobs,
                  archives, packaged, returned >>

\* futures = [executor.submit(process_job, *args) for args in job_args]
\* The pool has at least five workers, more than the jobs submitted here,
\* so every submitted call may run at once; a call that has not started is
\* one that has not taken its first step.
main_submit ==
  /\ mainpc = "submit"
  /\ jobs' = [j \in 1..Len(configs[ci].job_names) |->
                NewJob(configs[ci].pipeline, configs[ci].job_names[j])]
  /\ hist' = [hist EXCEPT !["submit"] = @ \/ Len(configs[ci].job_names) > 0]
  /\ mainpc' = "await"
  /\ UNCHANGED << env, configs, pageSize, ci, run, exitCode,
                  archives, outDirs, jobDirs, files, bundles, packaged, returned >>

\* for future in futures: future.result(), then the pool's shutdown(wait=True)
\* at the end of the with block.  result() re-raises what the call raised,
\* and an exception leaving main ends the process with status 1.
main_await ==
  /\ mainpc = "await"
  /\ AllDone
  /\ returned' = [returned EXCEPT ![ci] = [j \in DOMAIN jobs |-> jobs[j].result]]
  /\ IF \E j \in DOMAIN jobs : jobs[j].result = "raised"
       THEN Exit(1)
       ELSE mainpc' = "zip" /\ UNCHANGED exitCode
  /\ UNCHANGED << env, configs, pageSize, ci, run, jobs, archives,
                  outDirs, jobDirs, files, bundles, packaged, hist >>

\* zip_pdfs: every .pdf under output_dir; none: a warning and no archive;
\* else <prefix>reports.zip with each of them.  (The bundle is kept per
\* output directory: a later configuration with the same directory removes
\* the directory, bundle included, before it writes its own.)
zip_pdfs ==
  LET pl == configs[ci].pipeline
      pdf_files == { f \in files : f.pl = pl /\ IsPdf(f.name) }
  IN
  /\ mainpc = "zip"
  /\ bundles' = IF pdf_files = {} THEN bundles
                ELSE [bundles EXCEPT ![pl] = Payload("zip", pdf_files)]
  /\ packaged' = [packaged EXCEPT ![ci] = @ + 1]
  /\ ci' = ci + 1
  /\ mainpc' = "loop"
  /\ UNCHANGED << env, configs, pageSize, run, exitCode, jobs,
                  archives, outDirs, jobDirs, files, returned, hist >>

\* The loop over the configurations is over: main returns, status 0.
main_return ==
  /\ mainpc = "loop"
  /\ ci > Len(configs)
  /\ Exit(0)
  /\ MainUnchanged

NoHistory ==
  [listed |-> FALSE, downloaded |-> FALSE, clean |-> FALSE, submit |-> FALSE]

\* The driver is started again with the same environment, config file,
\* server and filesystem.
Rerun ==
  /\ mainpc = "exit"
  /\ run < MaxRuns
  /\ run' = run + 1
  /\ mainpc' = "token"
  /\ ci' = 1
  /\ exitCode' = -1
  /\ jobs' = << >>
  /\ packaged' = [i \in DOMAIN packaged |-> 0]
  /\ returned' = [i \in DOMAIN returned |-> << >>]
  /\ hist' = NoHistory
  /\ UNCHANGED << env, configs, pageSize, archives, outDirs,
                  jobDirs, files, bundles >>

\* ------------------------------------------------------------- spec
SeqsUpTo(S, n) == UNION { [1..k -> S] : k \in 0..n }

JobLists == SeqsUpTo(JobNames, MaxJobs)
Configs == [pipeline : Pipelines, job_names : JobLists]

RECURSIVE TotalJobs(_)
TotalJobs(cs) ==
  IF Len(cs) = 0 THEN 0 ELSE Len(Head(cs).job_names) + TotalJobs(Tail(cs))

ConfigFiles == { cs \in SeqsUpTo(Configs, MaxConfigs) : TotalJobs(cs) <= MaxJobs }

\* The state of the process and of the filesystem when the driver starts
\* for the first time, for a given environment, config file and server.
Start(e, cs, size) ==
  /\ env = e
  /\ configs = cs
  /\ pageSize = size
  /\ mainpc = "token"
  /\ ci = 1
  /\ run = 1
  /\ exitCode = -1
  /\ jobs = << >>
  /\ archives = [id \in JobIds |-> Absent]
  /\ outDirs = {}
  /\ jobDirs = {}
  /\ files = {}
  /\ bundles = [pl \in Pipelines |-> Absent]
  /\ packaged = [i \in 1..Len(cs) |-> 0]
  /\ returned = [i \in 1..Len(cs) |-> << >>]
  /\ hist = NoHistory

Environments ==
  [token : BOOLEAN, base_url : BOOLEAN,
   config_exists : BOOLEAN, config_json : BOOLEAN]

GoodEnv ==
  [token |-> TRUE, base_url |-> TRUE, config_exists |-> TRUE, config_json |-> TRUE]

\* One run of the driver, for every environment and every config file.
Init ==
  \E e \in Environments, cs \in ConfigFiles :
    /\ (~e.config_exists \/ ~e.config_json) => cs = << >>
    /\ Start(e, cs, MaxPageSize)

Next ==
  \/ main_token
  \/ main_base_url
  \/ main_config_path
  \/ main_load_config
  \/ main_clean
  \/ main_submit
  \/ \E j \in DOMAIN jobs : get_job_id(j)
  \/ \E j \in DOMAIN jobs : download_artifact_open(j)
  \/ \E j \in DOMAIN jobs : download_artifact_write(j)
  \/ \E j \in DOMAIN jobs : unzip_to_dir_extract(j)
  \/ \E j \in DOMAIN jobs : unzip_to_dir_remove(j)
  \/ \E j \in DOMAIN jobs : process_job_listdir(j)
  \/ \E j \in DOMAIN jobs : process_job_render(j)
  \/ \E j \in DOMAIN jobs : process_job_return(j)
  \/ main_await
  \/ zip_pdfs
  \/ main_return

Spec == Init /\ [][Next]_vars

\* One job of one configuration, for every page size of the listing.
InitResolve ==
  \E cs \in ConfigFiles, size \in 1..MaxPageSize :
    /\ Len(cs) = 1
    /\ Len(cs[1].job_names) = 1
    /\ Start(GoodEnv, cs, size)

SpecResolve == InitResolve /\ [][Next]_vars

\* The driver run again and again on one configuration.
InitTwice ==
  \E cs \in ConfigFiles :
    /\ Len(cs) = 1
    /\ Start(GoodEnv, cs, MaxPageSize)

NextTwice == Next \/ Rerun

SpecTwice == InitTwice /\ [][NextTwice]_vars

\* ------------------------------------------------------------- properties
\* The environment or the config file is unusable.
BadSetup ==
  ~env.token \/ ~env.base_url \/ ~env.config_exists \/ ~env.config_json

\* C1: every configuration is packaged exactly once, and only when every
\* job submitted for it has returned True or False: the configurations
\* before the current one have had their one zip_pdfs call, the current and
\* later ones none, and when main stands before zip_pdfs no job is running.
C1_PackagedOnceAfterAllJobs ==
  /\ \A i \in DOMAIN packaged : packaged[i] = (IF i < ci THEN 1 ELSE 0)
  /\ mainpc = "zip" =>
       \A j \in DOMAIN jobs :
         jobs[j].pc = "done" /\ jobs[j].result \in {"True", "False"}
  /\ (mainpc = "exit" /\ exitCode = 0) => ci = Len(configs) + 1

\* Main stands before zip_pdfs with one job that succeeded and one that failed.
C1_Witness ==
  /\ mainpc = "zip"
  /\ Len(jobs) = 2
  /\ jobs[1].result = "True"
  /\ jobs[2].result = "False"

\* C2: an exception at any step ends its job with the result False and goes
\* no further: no future holds an exception, every future of a processed
\* configuration gave True or False, and when main ends with a usable setup
\* it has gone through every configuration, packaged each, and exits 0.
C2_ExceptionsStayInTheirJob ==
  /\ \A j \in DOMAIN jobs :
       /\ jobs[j].result \in {"pending", "True", "False"}
       /\ jobs[j].err # "none" => jobs[j].pc = "done" /\ jobs[j].result = "False"
  /\ \A i \in DOMAIN returned : \A j \in DOMAIN returned[i] :
       returned[i][j] \in {"True", "False"}
  /\ (mainpc = "exit" /\ ~BadSetup) =>
       /\ exitCode = 0
       /\ ci = Len(configs) + 1
       /\ \A i \in DOMAIN configs :
            Len(returned[i]) = Len(configs[i].job_names) /\ packaged[i] = 1

\* The first configuration's job failed, the second configuration's job
\* succeeded afterwards, and the process ended with status 0.
C2_Witness ==
  /\ mainpc = "exit"
  /\ exitCode = 0
  /\ Len(configs) = 2
  /\ returned[1] = << "False" >>
  /\ returned[2] = << "True" >>

\* C3: where some jobs of a configuration failed and at least one
\* succeeded, every document in the bundle was written by a job that
\* returned True.
C3_BundleOnlySuccessfulJobs ==
  \A pl \in Pipelines : \A d \in bundles[pl].files :
    ( /\ \E j \in DOMAIN returned[d.cfg] : returned[d.cfg][j] = "True"
      /\ \E j \in DOMAIN returned[d.cfg] : returned[d.cfg][j] = "False" )
    => returned[d.cfg][d.by] = "True"

\* The job name is on some page of the pipeline's listing.
NameListed(pl, name) ==
  \E i \in DOMAIN ServerJobs(pl) : ServerJobs(pl)[i].name = name

\* C4: a job whose name is on no page never gets a job id, never asks for
\* an artifact and never creates an archive or a job directory; it ends
\* False, with ValueError once it has asked for every page in turn (or
\* with the HTTP error of a listing request).
C4_AbsentNameRaisesNotFound ==
  \A j \in DOMAIN jobs :
    ~NameListed(jobs[j].pl, jobs[j].name) =>
      /\ jobs[j].pc \in {"resolve", "done"}
      /\ jobs[j].job_id = 0
      /\ ~hist.downloaded
      /\ \A id \in JobIds : archives[id] = Absent
      /\ jobDirs = {}
      /\ jobs[j].pc = "resolve" => Len(jobs[j].seen) < NumPages(jobs[j].pl)
      /\ jobs[j].pc = "done" =>
           /\ jobs[j].result = "False"
           /\ jobs[j].err \in {"ValueError", "HTTPError"}
           /\ jobs[j].err = "ValueError" =>
                jobs[j].seen = [i \in 1..NumPages(jobs[j].pl) |-> i]

\* A name found on neither page of a two-page listing.
C4_Witness ==
  \E j \in DOMAIN jobs :
    /\ ~NameListed(jobs[j].pl, jobs[j].name)
    /\ jobs[j].err = "ValueError"
    /\ Len(jobs[j].seen) >= 2

\* The place in the listing of the first job with the name, and its page.
FirstIndex(pl, name) ==
  CHOOSE i \in DOMAIN ServerJobs(pl) :
    /\ ServerJobs(pl)[i].name = name
    /\ \A k \in 1..(i - 1) : ServerJobs(pl)[k].name # name

MatchPage(pl, name) == ((FirstIndex(pl, name) - 1) \div pageSize) + 1

\* C5: for a name whose first match is on page k, the pages asked for are
\* 1, 2, ... in order and never beyond k; the lookup ends only by returning
\* that job's id, having asked for exactly the pages 1..k, or by the HTTP
\* error of a request.
C5_PagesFollowedUpToMatch ==
  \A j \in DOMAIN jobs :
    NameListed(jobs[j].pl, jobs[j].name) =>
      LET job == jobs[j]
          k == MatchPage(job.pl, job.name)
      IN /\ Len(job.seen) <= k
         /\ \A i \in DOMAIN job.seen : job.seen[i] = i
         /\ job.pc = "resolve" => job.page = Len(job.seen) + 1
         /\ (job.pc = "done" /\ job.at = "resolve") => job.err = "HTTPError"
         /\ (job.pc # "resolve" /\ job.at # "resolve") =>
              /\ Len(job.seen) = k
              /\ job.job_id = ServerJobs(job.pl)[FirstIndex(job.pl, job.name)].id

\* A job found on the second page or later.
C5_Witness ==
  \E j \in DOMAIN jobs :
    /\ jobs[j].job_id # 0
    /\ Len(jobs[j].seen) >= 2
    /\ MatchPage(jobs[j].pl, jobs[j].name) = Len(jobs[j].seen)

\* The configurations whose output directory this run has cleaned.
Cleaned(i) == i < ci \/ (i = ci /\ mainpc \in {"submit", "await", "zip"})

\* C6: when the jobs of a configuration are about to be submitted its
\* output directory holds nothing, and from then on every file and every
\* bundled document in it was written by the current run.
C6_OutputDirClearedBeforeJobs ==
  /\ mainpc = "submit" =>
       LET pl == configs[ci].pipeline
       IN /\ pl \notin outDirs
          /\ \A d \in jobDirs : d[1] # pl
          /\ \A f \in files : f.pl # pl
          /\ bundles[pl] = Absent
  /\ \A i \in DOMAIN configs :
       Cleaned(i) =>
         /\ \A f \in files : f.pl = configs[i].pipeline => f.rn = run
         /\ \A d \in bundles[configs[i].pipeline].files : d.rn = run

\* A second run that found the first run's directory, removed it, and ended
\* with files and a bundle of its own.
C6_Witness ==
  /\ run = 2
  /\ hist.clean
  /\ mainpc = "exit"
  /\ files # {}
  /\ \E pl \in Pipelines : bundles[pl].kind = "zip"

\* C7: with the token, the base URL, the config file or its JSON missing,
\* main never gets past its checks: no request is made, nothing is deleted,
\* no job is submitted, and when it ends it ends with status 1.
C7_SetupErrorsExitBeforeAnyWork ==
  BadSetup =>
    /\ mainpc \in {"token", "base_url", "config_path", "load", "exit"}
    /\ mainpc = "exit" => exitCode = 1
    /\ hist = NoHistory
    /\ jobs = << >>
    /\ files = {} /\ outDirs = {} /\ jobDirs = {}

\* Everything is set but the config file is not valid JSON: exit status 1.
C7_Witness ==
  /\ env.token /\ env.base_url /\ env.config_exists /\ ~env.config_json
  /\ mainpc = "exit"
  /\ exitCode = 1

\* The paths a job is writing, extracting into or deleting where it stands.
Holds(j) ==
  LET zip == << "archive", jobs[j].job_id >>
      dir == << "dir", jobs[j].job_id >>
  IN IF jobs[j].pc \in {"writing", "remove"} THEN {zip}
     ELSE IF jobs[j].pc = "unzip" THEN {zip, dir}
     ELSE IF jobs[j].pc \in {"listdir", "render"} THEN {dir}
     ELSE {}

\* C8: two jobs of the pool never hold the same archive file or the same
\* job directory at the same time.
C8_JobsOwnTheirPaths ==
  \A j, k \in DOMAIN jobs : j # k => Holds(j) \cap Holds(k) = {}

\* C9: once a job has returned True, every .json and .xml file of its
\* directory has a document of its own, named after it, beside it.
C9_OneDocumentPerStructuredFile ==
  \A j \in DOMAIN jobs :
    jobs[j].result = "True" =>
      \A f \in ListDir(jobs[j].pl, jobs[j].job_id) :
        (IsJson(f) \/ IsXml(f)) =>
          \E d \in files :
            /\ d.pl = jobs[j].pl /\ d.id = jobs[j].job_id
            /\ d.name = PdfPath(f) /\ d.src = f

\* C10: once a job has ended, by returning True or by failing on an archive
\* that is no zip file, and no other job is at work on the same archive
\* path, the archive it downloaded is gone.
C10_NoArchiveLeftBehind ==
  \A j \in DOMAIN jobs :
    ( /\ jobs[j].pc = "done"
      /\ jobs[j].result = "True" \/ jobs[j].err = "BadZipFile"
      /\ \A k \in DOMAIN jobs :
           k # j /\ jobs[k].job_id = jobs[j].job_id => jobs[k].pc = "done" )
    => archives[jobs[j].job_id] = Absent

====
